---------------------------- MODULE Spec2Model ----------------------------
(***************************************************************************)
(* Model of whoisdomain/doParse.py: cleanupWhoisResponse, the WhoisParser  *)
(* helpers and do_parse.                                                   *)
(*                                                                         *)
(* A text is a sequence of tokens.  A token is either a single character   *)
(* ("\n", "\r", " ", "%", "x") or a literal that the code looks for (or a   *)
(* value) taken as one indivisible piece of text; no literal straddles two *)
(* tokens.  pc.verbose and dList only feed diagnostics printed to stderr   *)
(* and are left out.                                                       *)
(***************************************************************************)
EXTENDS Naturals, Sequences, FiniteSets

VARIABLES
    rawStr,      \* do_parse's argument whoisStr, as received
    tldString,   \* do_parse's argument tldString
    pc,          \* the ParameterContext: simplistic, with_cleanup_results, withRedacted
    step,        \* position of do_parse
    whoisStr,    \* do_parse's local variable whoisStr
    wp,          \* the WhoisParser object: [whoisStr |-> self.whoisStr]
    resultDict,  \* do_parse's resultDict
    ret,         \* the value do_parse returns
    exc          \* the exception do_parse raises ("" for none)

vars == <<rawStr, tldString, pc, step, whoisStr, wp, resultDict, ret, exc>>

---------------------------------------------------------------------------
(* Bounds of the explored inputs *)

MaxNormLen == 4      \* tokens of a free-form text given to the normalizer
MaxShortLines == 2   \* content lines of a short-response input
MaxPad == 5          \* blank lines appended to a short-response input
MaxLongLines == 3    \* content lines of a long-response input

---------------------------------------------------------------------------
(* Characters and strings *)

NL == "\n"
CR == "\r"
SP == " "

\* what str.strip() without arguments removes
Whitespace == {SP, NL, CR}

\* str.lower(), token by token
LowerTok(t) ==
    CASE t = "Quota exceeded" -> "quota exceeded"
      [] t = "No match for" -> "no match for"
      [] t = "Error" -> "error"
      [] t = "Server Name:" -> "server name:"
      [] t = "Server Name" -> "server name"
      [] t = "Domain Name:" -> "domain name:"
      [] t = "DNSSEC:" -> "dnssec:"
      [] t = "REDACTED FOR PRIVACY" -> "redacted for privacy"
      [] t = "Please query the RDDS service of the Registrar of Record"
             -> "please query the rdds service of the registrar of record"
      [] t = "Terms of Use:" -> "terms of use:"
      [] t = "source:       IANA" -> "source:       iana"
      [] t = "signedDelegation" -> "signeddelegation"
      [] t = "WHOIS.EXAMPLE" -> "whois.example"
      [] t = "Internet Assigned Numbers Authority" -> "internet assigned numbers authority"
      [] OTHER -> t

Lower(s) == [i \in 1..Len(s) |-> LowerTok(s[i])]

\* the pairs <<token, literal>> where the literal is a proper part of the token
PartOf == { <<"Server Name:", "Server Name">>, <<"server name:", "server name">> }

\* lit in tok
TokHas(tok, lit) == tok = lit \/ <<tok, lit>> \in PartOf

\* lit in s
Has(s, lit) == \E i \in 1..Len(s) : TokHas(s[i], lit)

\* s.startswith(lit)
StartsWith(s, lit) == Len(s) >= 1 /\ s[1] = lit

\* s.find(lit): the index of the first occurrence, 0 when there is none (-1 in Python)
Find(s, lit) ==
    IF Has(s, lit) THEN CHOOSE i \in 1..Len(s) :
                           /\ TokHas(s[i], lit)
                           /\ \A j \in 1..(i - 1) : ~TokHas(s[j], lit)
    ELSE 0

\* s.count(lit)
Count(s, lit) == Cardinality({i \in 1..Len(s) : TokHas(s[i], lit)})

RECURSIVE Split(_, _)
\* s.split(sep), sep a one-token literal
Split(s, sep) ==
    IF ~Has(s, sep) THEN <<s>>
    ELSE LET i == Find(s, sep)
         IN <<SubSeq(s, 1, i - 1)>> \o Split(SubSeq(s, i + 1, Len(s)), sep)

RECURSIVE Join(_, _)
\* sep.join(parts)
Join(parts, sep) ==
    IF Len(parts) = 0 THEN <<>>
    ELSE IF Len(parts) = 1 THEN parts[1]
    ELSE parts[1] \o <<sep>> \o Join(Tail(parts), sep)

RECURSIVE LStrip(_, _)
LStrip(s, chars) ==
    IF Len(s) > 0 /\ s[1] \in chars THEN LStrip(Tail(s), chars) ELSE s

RECURSIVE RStrip(_, _)
RStrip(s, chars) ==
    IF Len(s) > 0 /\ s[Len(s)] \in chars THEN RStrip(SubSeq(s, 1, Len(s) - 1), chars) ELSE s

\* s.strip(chars): both ends
Strip(s, chars) == RStrip(LStrip(s, chars), chars)

---------------------------------------------------------------------------
(* cleanupWhoisResponse *)

\* the tests of the loop body that drop a line (continue)
DropLine(line, with_cleanup_results, withRedacted) ==
    \/ with_cleanup_results /\ StartsWith(line, "%")
    \/ ~withRedacted /\ Has(line, "REDACTED FOR PRIVACY")
    \/ Has(line, "Please query the RDDS service of the Registrar of Record")
    \/ StartsWith(line, "Terms of Use:")

\* tmp2.append(line.strip("\r"))
KeptLine(line) == Strip(line, {CR})

RECURSIVE CleanupLoop(_, _, _, _)
\* the for loop over tmp, from line i on: whether it raises WhoisQuotaExceeded,
\* and otherwise the lines it appends to tmp2 (skipFromHere is never set)
CleanupLoop(tmp, i, with_cleanup_results, withRedacted) ==
    IF i > Len(tmp) THEN [raised |-> FALSE, tmp2 |-> <<>>]
    ELSE IF Has(Lower(tmp[i]), "quota exceeded") THEN [raised |-> TRUE, tmp2 |-> <<>>]
    ELSE LET rest == CleanupLoop(tmp, i + 1, with_cleanup_results, withRedacted)
         IN IF rest.raised THEN rest
            ELSE IF DropLine(tmp[i], with_cleanup_results, withRedacted) THEN rest
            ELSE [raised |-> FALSE, tmp2 |-> <<KeptLine(tmp[i])>> \o rest.tmp2]

\* [raised |-> WhoisQuotaExceeded was raised, text |-> the returned string]
cleanupWhoisResponse(s, with_cleanup_results, withRedacted) ==
    LET r == CleanupLoop(Split(s, NL), 1, with_cleanup_results, withRedacted)
    IN [raised |-> r.raised, text |-> IF r.raised THEN <<>> ELSE Join(r.tmp2, NL)]

---------------------------------------------------------------------------
(* Tables the parser imports: NoneStrings, QuotaStrings, TLD_RE *)

\* noneStrings.NoneStrings(): the phrases of a "domain not registered" answer
NoneStrings == {"no match for", "not found"}

\* quotaStrings.QuotaStrings(): the phrases of a rate-limit answer
QuotaStrings == {"quota exceeded", "limit exceeded"}

\* a compiled pattern <lit>\s?(.+), or None
Pat(lit) == [isNone |-> FALSE, lit |-> lit]
NoPat == [isNone |-> TRUE, lit |-> ""]

\* _0_init_tld.TLD_RE: tld -> key -> pattern; "com" is the default entry
TLD_RE ==
    [t \in {"com", "uk"} |->
        IF t = "com"
        THEN [k \in {"_server", "domain_name", "registrar", "registrant", "creation_date"} |->
                CASE k = "_server" -> NoPat
                  [] k = "domain_name" -> Pat("Domain Name:")
                  [] k = "registrar" -> Pat("Registrar:")
                  [] k = "registrant" -> NoPat
                  [] k = "creation_date" -> Pat("Creation Date:")]
        ELSE [k \in {"_privateRegistry", "domain_name", "status"} |->
                CASE k = "_privateRegistry" -> NoPat
                  [] k = "domain_name" -> Pat("Domain Name:")
                  [] k = "status" -> NoPat]]

---------------------------------------------------------------------------
(* Dictionaries and regular expressions *)

EmptyDict == [k \in {} |-> <<>>]

\* the last index of the run of non-newline characters that starts at k
RunEnd(s, k) ==
    CHOOSE e \in k..Len(s) :
        /\ \A m \in k..e : s[m] # NL
        /\ (e = Len(s) \/ s[e + 1] = NL)

\* where the group of <lit>\s?([^\n]+) starts when the literal is matched at i:
\* \s? takes one whitespace character if the group can still match after it,
\* and gives it back otherwise; 0 when there is no match at i
GroupStart(s, i) ==
    LET j == i + 1
    IN IF j <= Len(s) /\ s[j] \in Whitespace /\ j + 1 <= Len(s) /\ s[j + 1] # NL
       THEN j + 1
       ELSE IF j <= Len(s) /\ s[j] # NL THEN j ELSE 0

MatchAt(lit, s, i) == s[i] = lit /\ GroupStart(s, i) # 0

RECURSIVE FindAllFrom(_, _, _)
\* re.findall from position p on: the groups of the non-overlapping matches
FindAllFrom(lit, s, p) ==
    IF ~\E i \in p..Len(s) : MatchAt(lit, s, i) THEN <<>>
    ELSE LET i == CHOOSE i \in p..Len(s) :
                     /\ MatchAt(lit, s, i)
                     /\ \A j \in p..(i - 1) : ~MatchAt(lit, s, j)
             c == GroupStart(s, i)
             e == RunEnd(s, c)
         IN <<SubSeq(s, c, e)>> \o FindAllFrom(lit, s, e + 1)

\* re.findall(r"<lit>\s?([^\n]+)", s), the same as with (.+)
FindAll(lit, s) == FindAllFrom(lit, s, 1)

---------------------------------------------------------------------------
(* WhoisParser *)

\* k.startswith("_")
IsMeta(k) == k \in {"_server", "_privateRegistry"}

\* the literals of the dictionary iana: key -> <lit>\s?([^\n]+)
iana ==
    [k \in {"domain_name", "registrar", "creation_date"} |->
        CASE k = "domain_name" -> "domain:"
          [] k = "registrar" -> "organisation:"
          [] k = "creation_date" -> "created:"]

_doExtractPattensIanaFromWhoisString(rd, s) ==
    LET hit == {k \in DOMAIN iana : FindAll(iana[k], s) # <<>>}
    IN [k \in (DOMAIN rd) \cup hit |->
            IF k \in hit THEN FindAll(iana[k], s) ELSE rd[k]]

\* as _doExtractPattensFromWhoisString, without the "or [""]" default
ExtractWithoutDefault(rd, s, tld) ==
    LET table == IF tld \in DOMAIN TLD_RE THEN TLD_RE[tld] ELSE TLD_RE["com"]
        keys == {k \in DOMAIN table : ~IsMeta(k)}
    IN [k \in (DOMAIN rd) \cup keys |->
            IF k \in keys
            THEN IF table[k].isNone THEN << <<>> >> ELSE FindAll(table[k].lit, s)
            ELSE rd[k]]

_doExtractPattensFromWhoisString(rd, s, tld) ==
    LET table == IF tld \in DOMAIN TLD_RE THEN TLD_RE[tld] ELSE TLD_RE["com"]
        keys == {k \in DOMAIN table : ~IsMeta(k)}
    IN [k \in (DOMAIN rd) \cup keys |->
            IF k \in keys
            THEN IF table[k].isNone THEN << <<>> >>
                 ELSE IF FindAll(table[k].lit, s) # <<>> THEN FindAll(table[k].lit, s)
                 ELSE << <<>> >>
            ELSE rd[k]]

\* [text |-> the first component, isNone |-> the second is None, dict |-> the second]
_doSourceIana(rd, s, tld) ==
    LET k == "source:       IANA"
        whois_splitted == Split(s, k)
        z == Len(whois_splitted)
    IN IF z > 2
       THEN [text |-> Join(Tail(whois_splitted), k), isNone |-> TRUE, dict |-> EmptyDict]
       ELSE IF z = 2 /\ Strip(whois_splitted[2], Whitespace) # <<>>
       THEN [text |-> whois_splitted[2], isNone |-> TRUE, dict |-> EmptyDict]
       ELSE [text |-> s, isNone |-> FALSE,
             dict |-> _doExtractPattensIanaFromWhoisString(
                          _doExtractPattensFromWhoisString(rd, s, tld), s)]

\* the last character of a token
LastCharTok(t) ==
    CASE t \in {NL, CR, SP, "%", "x"} -> t
      [] t \in {"Server Name:", "server name:", "Domain Name:", "DNSSEC:", "domain:",
                "organisation:", "Terms of Use:"} -> ":"
      [] t \in {"foo.example", "whois.example"} -> "e"
      [] t = "WHOIS.EXAMPLE" -> "E"
      [] t = "source:       IANA" -> "A"
      [] t = "example.com" -> "m"
      [] t = "signedDelegation" -> "n"
      [] t = "yes" -> "s"
      [] OTHER -> "d"

\* s[i:] for i = s.find(...): from the occurrence on, or, with find's -1,
\* the last character
SliceFromFind(s, i) ==
    IF i # 0 THEN SubSeq(s, i, Len(s))
    ELSE IF Len(s) = 0 THEN <<>> ELSE <<LastCharTok(s[Len(s)])>>

\* the new self.whoisStr (and the value returned)
_doIfServerNameLookForDomainName(s) ==
    IF FindAll("server name:", Lower(s)) # <<>>
    THEN SliceFromFind(s, Find(s, "Domain Name:"))
    ELSE s

\* as _doDnsSec, accepting whatever follows the marker
DnsSecAnyValue(s) == Len(Split(s, "DNSSEC:")) >= 2

_doDnsSec(s) ==
    LET whoisDnsSecList == Split(s, "DNSSEC:")
    IN /\ Len(whoisDnsSecList) >= 2
       /\ LET whoisDnsSecStr == Split(whoisDnsSecList[2], NL)[1]
          IN Strip(whoisDnsSecStr, Whitespace) \in {<<"signedDelegation">>, <<"yes">>}

\* what do_parse returns: nothing yet (""), None, a Domain or a dictionary
Unset == [kind |-> "", data |-> EmptyDict, exeptionStr |-> "", whoisStr |-> <<>>]
None == [kind |-> "None", data |-> EmptyDict, exeptionStr |-> "", whoisStr |-> <<>>]
Domain(data, s, msg) == [kind |-> "Domain", data |-> data, exeptionStr |-> msg, whoisStr |-> s]
Dict(d) == [kind |-> "dict", data |-> d, exeptionStr |-> "", whoisStr |-> <<>>]

\* as _handleShortResponse, with "error" classified as a parse failure
ShortErrorFails(str, simplistic) ==
    LET s == Lower(Strip(str, Whitespace))
    IN IF \E i \in NoneStrings : Has(s, i) THEN [exc |-> "", ret |-> None]
       ELSE IF \E i \in QuotaStrings : Has(s, i) /\ Count(s, "error") = 0
       THEN IF simplistic
            THEN [exc |-> "", ret |-> Domain(EmptyDict, str, "WhoisQuotaExceeded")]
            ELSE [exc |-> "WhoisQuotaExceeded", ret |-> Unset]
       ELSE IF simplistic
            THEN [exc |-> "", ret |-> Domain(EmptyDict, str, "FailedParsingWhoisOutput")]
            ELSE [exc |-> "FailedParsingWhoisOutput", ret |-> Unset]

\* as _handleShortResponse, with the quota phrases looked for first
ShortQuotaFirst(str, simplistic) ==
    LET s == Lower(Strip(str, Whitespace))
    IN IF \E i \in QuotaStrings : Has(s, i)
       THEN IF simplistic
            THEN [exc |-> "", ret |-> Domain(EmptyDict, str, "WhoisQuotaExceeded")]
            ELSE [exc |-> "WhoisQuotaExceeded", ret |-> Unset]
       ELSE IF \E i \in NoneStrings : Has(s, i) THEN [exc |-> "", ret |-> None]
       ELSE IF Count(s, "error") # 0 THEN [exc |-> "", ret |-> None]
       ELSE IF simplistic
            THEN [exc |-> "", ret |-> Domain(EmptyDict, str, "FailedParsingWhoisOutput")]
            ELSE [exc |-> "FailedParsingWhoisOutput", ret |-> Unset]

\* [exc |-> the exception raised or "", ret |-> the value returned]
_handleShortResponse(str, simplistic) ==
    LET s == Lower(Strip(str, Whitespace))
    IN IF \E i \in NoneStrings : Has(s, i) THEN [exc |-> "", ret |-> None]
       ELSE IF Count(s, "error") # 0 THEN [exc |-> "", ret |-> None]
       ELSE IF \E i \in QuotaStrings : Has(s, i)
       THEN IF simplistic
            THEN [exc |-> "", ret |-> Domain(EmptyDict, str, "WhoisQuotaExceeded")]
            ELSE [exc |-> "WhoisQuotaExceeded", ret |-> Unset]
       ELSE IF simplistic
            THEN [exc |-> "", ret |-> Domain(EmptyDict, str, "FailedParsingWhoisOutput")]
            ELSE [exc |-> "FailedParsingWhoisOutput", ret |-> Unset]

---------------------------------------------------------------------------
(* The inputs explored *)

\* if whoisStr.count("\n") < 5
ShortLimit == 5

Blank(n) == [i \in 1..n |-> <<>>]

\* do_parse is entered with the text, the tld and the ParameterContext
Start(text, tld, p) ==
    /\ rawStr = text
    /\ tldString = tld
    /\ pc = p
    /\ step = "Start"
    /\ whoisStr = text
    /\ wp = [whoisStr |-> <<>>]
    /\ resultDict = EmptyDict
    /\ ret = Unset
    /\ exc = ""

\* free-form texts for the normalizer
NormAlphabet == {NL, CR, "%", "Terms of Use:", "x"}

NormInputs ==
    \E k \in 0..MaxNormLen : \E t \in [1..k -> NormAlphabet] : \E c \in BOOLEAN :
        Start(t, "com",
              [simplistic |-> FALSE, with_cleanup_results |-> c, withRedacted |-> FALSE])

\* answers of a few lines, followed by blank lines
ShortPool ==
    { <<"No match for", SP, "x">>,
      <<"Error">>,
      <<"limit exceeded">>,
      <<"Quota exceeded">>,
      <<"x">>,
      <<"%", SP, "not found">>,
      <<"x", SP, "REDACTED FOR PRIVACY">>,
      <<"No match for", SP, "Error", SP, "limit exceeded">>,
      <<"Please query the RDDS service of the Registrar of Record">> }

ShortInputs ==
    \E k \in 1..MaxShortLines : \E ls \in [1..k -> ShortPool] : \E n \in 0..MaxPad :
        \E c \in [simplistic : BOOLEAN, with_cleanup_results : BOOLEAN, withRedacted : BOOLEAN] :
            Start(Join(ls \o Blank(n), NL), "com", c)

\* answers long enough for field extraction: content lines, then blank lines
LongPool ==
    { <<"source:       IANA">>,
      <<"domain:", SP, SP, SP, SP, SP, SP, SP, "example.com">>,
      <<"organisation:", SP, SP, "Internet Assigned Numbers Authority">>,
      <<"Domain Name:", SP, "foo.example">>,
      <<"Server Name:", SP, SP, SP, "WHOIS.EXAMPLE">>,
      <<"server name:", SP, "whois.example">>,
      <<"Server Name", SP, "x">>,
      <<"DNSSEC:", SP, "yes", SP>>,
      <<"DNSSEC:", SP, "unsigned">>,
      <<"DNSSEC:", SP, "signedDelegation", SP, "DNSSEC:", SP, "unsigned">> }

LongInputs ==
    \E k \in 1..MaxLongLines : \E ls \in [1..k -> LongPool] : \E t \in {"uk", "zz"} :
        Start(Join(ls \o Blank(ShortLimit), NL), t,
              [simplistic |-> FALSE, with_cleanup_results |-> FALSE, withRedacted |-> FALSE])

---------------------------------------------------------------------------
(* do_parse *)

Init == NormInputs \/ ShortInputs \/ LongInputs

\* whoisStr = cleanupWhoisResponse(...); wp = WhoisParser(...)
Cleanup ==
    /\ step = "Start"
    /\ LET c == cleanupWhoisResponse(rawStr, pc.with_cleanup_results, pc.withRedacted)
       IN IF c.raised
          THEN /\ exc' = "WhoisQuotaExceeded"
               /\ step' = "Raised"
               /\ UNCHANGED <<whoisStr, wp>>
          ELSE /\ whoisStr' = c.text
               /\ wp' = [whoisStr |-> c.text]
               /\ step' = "Normalized"
               /\ exc' = exc
    /\ UNCHANGED <<rawStr, tldString, pc, resultDict, ret>>

\* if whoisStr.count("\n") < 5: return wp._handleShortResponse()
HandleShort ==
    /\ step = "Normalized"
    /\ Count(whoisStr, NL) < ShortLimit
    /\ LET r == _handleShortResponse(wp.whoisStr, pc.simplistic)
       IN /\ exc' = r.exc
          /\ ret' = r.ret
    /\ step' = "ShortCircuited"
    /\ UNCHANGED <<rawStr, tldString, pc, whoisStr, wp, resultDict>>

\* resultDict = {"tld": tldString, "DNSSEC": wp._doDnsSec()}
BeginExtract ==
    /\ step = "Normalized"
    /\ ~(Count(whoisStr, NL) < ShortLimit)
    /\ resultDict' = [k \in {"tld", "DNSSEC"} |->
                         IF k = "tld" THEN tldString ELSE _doDnsSec(wp.whoisStr)]
    /\ step' = "Extracting"
    /\ UNCHANGED <<rawStr, tldString, pc, whoisStr, wp, ret, exc>>

\* if "source:       IANA" in whoisStr: ...
SourceIana ==
    /\ step = "Extracting"
    /\ Has(whoisStr, "source:       IANA")
    /\ LET r == _doSourceIana(resultDict, wp.whoisStr, tldString)
       IN /\ whoisStr' = r.text
          /\ IF ~r.isNone
             THEN /\ resultDict' = r.dict
                  /\ ret' = Dict(r.dict)
                  /\ step' = "IanaResult"
             ELSE /\ step' = "Rewritten"
                  /\ UNCHANGED <<resultDict, ret>>
    /\ UNCHANGED <<rawStr, tldString, pc, wp, exc>>

\* if "Server Name" in whoisStr: whoisStr = wp._doIfServerNameLookForDomainName()
ServerName ==
    /\ \/ step = "Rewritten"
       \/ step = "Extracting" /\ ~Has(whoisStr, "source:       IANA")
    /\ IF Has(whoisStr, "Server Name")
       THEN /\ wp' = [whoisStr |-> _doIfServerNameLookForDomainName(wp.whoisStr)]
            /\ whoisStr' = wp'.whoisStr
       ELSE UNCHANGED <<whoisStr, wp>>
    /\ step' = "Scanning"
    /\ UNCHANGED <<rawStr, tldString, pc, resultDict, ret, exc>>

\* return wp._doExtractPattensFromWhoisString(resultDict=resultDict)
Extract ==
    /\ step = "Scanning"
    /\ resultDict' = _doExtractPattensFromWhoisString(resultDict, wp.whoisStr, tldString)
    /\ ret' = Dict(resultDict')
    /\ step' = "GenericResult"
    /\ UNCHANGED <<rawStr, tldString, pc, whoisStr, wp, exc>>

Next ==
    \/ Cleanup
    \/ HandleShort
    \/ BeginExtract
    \/ SourceIana
    \/ ServerName
    \/ Extract

Spec == Init /\ [][Next]_vars

---------------------------------------------------------------------------
(* Properties *)

IANA == "source:       IANA"

\* the normalized text of the input (defined when normalization did not raise)
Norm == cleanupWhoisResponse(rawStr, pc.with_cleanup_results, pc.withRedacted).text

\* do_parse has returned a dictionary
Returned == step \in {"IanaResult", "GenericResult"}

\* the number of newline-separated lines of s
LineCount(s) == Count(s, NL) + 1

\* the pattern map used for the requested tld
Resolved == IF tldString \in DOMAIN TLD_RE THEN TLD_RE[tldString] ELSE TLD_RE["com"]

\* s from index i to the first index at or after i that holds a token of stop,
\* that token excluded
Upto(s, i, stop) ==
    LET ends == {j \in i..Len(s) : s[j] \in stop}
        e == IF ends = {} THEN Len(s) + 1
             ELSE CHOOSE j \in ends : \A m \in ends : j <= m
    IN SubSeq(s, i, e - 1)

\* the quota text is in some line of the raw response, in any letter case
RawHasQuota == \E i \in 1..Len(rawStr) : LowerTok(rawStr[i]) = "quota exceeded"

\* C1: a raw response with "quota exceeded" in some line gives, in lenient
\* mode, a returned value with the WhoisQuotaExceeded marker and no fields and
\* no exception, and in strict mode the exception WhoisQuotaExceeded.
C1_QuotaByMode ==
    (step \in {"Raised", "ShortCircuited", "IanaResult", "GenericResult"} /\ RawHasQuota)
        => IF pc.simplistic
           THEN /\ exc = ""
                /\ ret.kind = "Domain"
                /\ ret.exeptionStr = "WhoisQuotaExceeded"
                /\ ret.data = EmptyDict
           ELSE exc = "WhoisQuotaExceeded"

\* the short normalized response has no not-registered phrase but has "error"
ShortErrorCase ==
    /\ step = "ShortCircuited"
    /\ ~\E i \in 1..Len(wp.whoisStr) : LowerTok(wp.whoisStr[i]) \in NoneStrings
    /\ \E i \in 1..Len(wp.whoisStr) : LowerTok(wp.whoisStr[i]) = "error"

C3_ShortIffUnderFiveLines ==
    /\ step = "ShortCircuited" => LineCount(wp.whoisStr) < 5
    /\ step = "Extracting" => LineCount(wp.whoisStr) >= 5

\* the text after the first IANA marker of the normalized text
AfterIana == SubSeq(Norm, Find(Norm, IANA) + 1, Len(Norm))

\* the marker occurs more than once, or once with more than whitespace after it
IanaWrapper ==
    \/ Count(Norm, IANA) > 1
    \/ Count(Norm, IANA) = 1 /\ Strip(AfterIana, Whitespace) # <<>>

\* C4: when the IANA marker occurs more than once, or once with more than
\* whitespace after it, the generic result holds [""] for every field whose
\* pattern matches nothing in the text after the first marker.
C4_FieldsFromAfterMarker ==
    (step = "GenericResult" /\ IanaWrapper)
        => \A k \in DOMAIN Resolved :
              (~IsMeta(k) /\ ~Resolved[k].isNone /\ FindAll(Resolved[k].lit, AfterIana) = <<>>)
                  => ret.data[k] = << <<>> >>

\* C5: in the canonical IANA form the overlaid values carry no surrounding
\* whitespace: the line "domain:       example.com" gives domain_name
\* example.com, the line "organisation:  Internet Assigned Numbers Authority"
\* gives registrar Internet Assigned Numbers Authority.
C5_IanaValuesTrimmed ==
    step = "IanaResult"
        => /\ Has(Norm, "domain:")
                => \A i \in 1..Len(ret.data["domain_name"]) :
                       ret.data["domain_name"][i] = <<"example.com">>
           /\ Has(Norm, "organisation:")
                => \A i \in 1..Len(ret.data["registrar"]) :
                       ret.data["registrar"][i] = <<"Internet Assigned Numbers Authority">>

\* the keys of the resolved pattern map are in the result, the meta keys are not
KeysPresent ==
    /\ \A k \in DOMAIN Resolved :
          IF IsMeta(k) THEN k \notin DOMAIN ret.data
          ELSE k \in DOMAIN ret.data /\ ret.data[k] # <<>>
    /\ \A k \in DOMAIN ret.data : ~IsMeta(k)

\* the pattern of key k is absent or matches nothing in the scanned text
NoGenericMatch(k) == Resolved[k].isNone \/ FindAll(Resolved[k].lit, wp.whoisStr) = <<>>

\* C6 as stated: every returned dictionary holds every non-meta key of the
\* resolved pattern map with a non-empty list, [""] when the pattern is absent
\* or matches nothing, and holds no meta key.
C6_EveryKeyPresent ==
    Returned
        => /\ KeysPresent
           /\ \A k \in DOMAIN Resolved :
                 (~IsMeta(k) /\ NoGenericMatch(k)) => ret.data[k] = << <<>> >>

\* C6 as amended: the same, except that in an IanaResult a key of the IANA
\* pattern set whose IANA pattern matches holds those matches.
C6_EveryKeyPresentOrOverlaid ==
    Returned
        => /\ KeysPresent
           /\ \A k \in DOMAIN Resolved :
                 (~IsMeta(k) /\ NoGenericMatch(k))
                     => IF /\ step = "IanaResult"
                           /\ k \in DOMAIN iana
                           /\ FindAll(iana[k], wp.whoisStr) # <<>>
                        THEN ret.data[k] = FindAll(iana[k], wp.whoisStr)
                        ELSE ret.data[k] = << <<>> >>

C6_Witness ==
    /\ step = "IanaResult"
    /\ tldString \notin DOMAIN TLD_RE
    /\ ret.data["registrant"] = << <<>> >>
    /\ ret.data["creation_date"] = << <<>> >>
    /\ ret.data["domain_name"] # << <<>> >>

\* C7: without an IANA marker, a response holding "Server Name:" in any letter
\* case is scanned from its first "Domain Name:" on, and a response without
\* "Server Name:" is scanned whole.
C7_ServerNameAnyCase ==
    (step = "GenericResult" /\ ~Has(Norm, IANA))
        => /\ (Has(Lower(Norm), "server name:") /\ Has(Norm, "Domain Name:"))
                => wp.whoisStr = SubSeq(Norm, Find(Norm, "Domain Name:"), Len(Norm))
           /\ ~Has(Lower(Norm), "server name:") => wp.whoisStr = Norm

\* C8: normalizing a normalized text again, under the same configuration,
\* gives the same text.
C8_NormalizeIdempotent ==
    step = "Normalized"
        => LET again == cleanupWhoisResponse(wp.whoisStr, pc.with_cleanup_results,
                                             pc.withRedacted)
           IN ~again.raised /\ again.text = wp.whoisStr

\* C9 as stated: the DNSSEC flag of a returned dictionary is true exactly when
\* the normalized text holds "DNSSEC:" and the rest of the line after its first
\* occurrence, trimmed, is "signedDelegation" or "yes".
C9_DnssecRestOfLine ==
    Returned
        => (ret.data["DNSSEC"]
            <=> /\ Has(Norm, "DNSSEC:")
                /\ Strip(Upto(Norm, Find(Norm, "DNSSEC:") + 1, {NL}), Whitespace)
                       \in {<<"signedDelegation">>, <<"yes">>})

\* C9 as amended: the text compared is what follows the first "DNSSEC:" up to
\* the end of the line or the next "DNSSEC:", whichever comes first.
C9_DnssecUptoNextMarker ==
    Returned
        => (ret.data["DNSSEC"]
            <=> /\ Has(Norm, "DNSSEC:")
                /\ Strip(Upto(Norm, Find(Norm, "DNSSEC:") + 1, {NL, "DNSSEC:"}), Whitespace)
                       \in {<<"signedDelegation">>, <<"yes">>})

C9_Witness ==
    /\ step = "GenericResult"
    /\ ret.data["DNSSEC"]
    /\ Has(Norm, "DNSSEC:")
    /\ Has(Norm, "Domain Name:")
    /\ ~Has(wp.whoisStr, "DNSSEC:")

\* C10: a short normalized response that holds a not-registered phrase returns
\* the empty outcome None and raises nothing, in both modes, whatever else it
\* holds.
C10_NotRegisteredFirst ==
    (/\ step = "ShortCircuited"
     /\ \E i \in 1..Len(wp.whoisStr) : LowerTok(wp.whoisStr[i]) \in NoneStrings)
        => (ret = None /\ exc = "")

C10_Witness ==
    /\ step = "ShortCircuited"
    /\ ~pc.simplistic
    /\ \E i \in 1..Len(wp.whoisStr) : LowerTok(wp.whoisStr[i]) \in NoneStrings
    /\ \E i \in 1..Len(wp.whoisStr) : LowerTok(wp.whoisStr[i]) = "error"
    /\ \E i \in 1..Len(wp.whoisStr) : wp.whoisStr[i] = "limit exceeded"
    /\ ret = None

=============================================================================
